---- MODULE Spec2Model ----
(***************************************************************************)
(* Model of seckey's TempKey (src/src/tempkey.rs): a borrowing wrapper     *)
(* `TempKey<'a, T>(&'a mut T)` that mlocks the referenced value on         *)
(* construction, munlocks it in Drop, and compares by memory content       *)
(* through memsec's memeq / memcmp.                                        *)
(*                                                                         *)
(* Caller memory is a set of T-sized slots grouped into pages; the         *)
(* operating system pins and unpins whole pages (mlock(2)/munlock(2)).     *)
(* Wrappers are held in caller bindings, which can be moved from and       *)
(* leave scope on a normal, early-return or unwinding path.                *)
(***************************************************************************)
EXTENDS Integers, Sequences, FiniteSets

\* ---------------------------------------------------------------- bounds
NumSlots     == 2   \* caller values of type T that can be wrapped
SlotsPerPage == 2   \* how many of those values share one memory page
SizeOfT      == 2   \* mem::size_of::<T>() in bytes
MaxByte      == 1   \* bytes range over 0..MaxByte
MaxKeys      == 2   \* wrappers constructed in one run
NumBindings  == 2   \* caller variables that can hold a wrapper

Slots    == 0 .. (NumSlots - 1)
Byte     == 0 .. MaxByte
Values   == [1 .. SizeOfT -> Byte]
Keys     == 1 .. MaxKeys
Bindings == 1 .. NumBindings
Paths    == {"normal", "early_return", "unwind"}

NoKey    == 0     \* binding declared, holds no wrapper
MovedOut == -1    \* binding whose wrapper was moved away (no drop glue runs)

VARIABLES
    mem,       \* caller memory: slot -> bytes of the value stored there
    pinned,    \* operating system: set of pages currently locked in RAM
    key,       \* wrapper instances: id -> [st, addr, lockOk]
    nextKey,   \* id of the next wrapper to be constructed
    bind,      \* caller bindings: binding -> NoKey | MovedOut | wrapper id
    hist,      \* per wrapper: the provider requests made for it, in order
    last,      \* the last operation performed and what it returned
    panicked   \* TRUE once any operation panicked

vars == <<mem, pinned, key, nextKey, bind, hist, last, panicked>>

\* ------------------------------------------------------- memory and pages
PageOf(addr) == addr \div SlotsPerPage

\* pages touched by the byte range [addr, addr+len) of a slot-aligned value
PagesOf(addr, len) == IF len = 0 THEN {} ELSE {PageOf(addr)}

\* ------------------------------------------------- memsec provider (line 4)
\* mlock(addr, len): on success the pages of the range are pinned
mlock(pin, addr, len, ok) == IF ok THEN pin \cup PagesOf(addr, len) ELSE pin

\* munlock(addr, len): on success the pages of the range are unpinned;
\* page locks do not nest
munlock(pin, addr, len, ok) == IF ok THEN pin \ PagesOf(addr, len) ELSE pin

\* memeq(b1, b2, len): ORs the byte differences of all len bytes, one step
\* per byte, and answers whether the accumulated difference is zero
RECURSIVE memeq_fold(_, _, _, _)
memeq_fold(b1, b2, i, len) ==
    IF i > len THEN [acc |-> 0, steps |-> 0]
    ELSE LET d == IF b1[i] = b2[i] THEN 0 ELSE 1
             r == memeq_fold(b1, b2, i + 1, len)
         IN  [acc |-> IF d + r.acc > 0 THEN 1 ELSE 0, steps |-> r.steps + 1]

memeq(b1, b2, len) ==
    LET r == memeq_fold(b1, b2, 1, len)
    IN  [ret |-> (r.acc = 0), steps |-> r.steps]

\* memcmp(b1, b2, len): walks all len bytes from the last to the first, one
\* step per byte, keeping the difference of the lowest differing byte, and
\* returns its sign
RECURSIVE memcmp_fold(_, _, _, _)
memcmp_fold(b1, b2, i, acc) ==
    IF i < 1 THEN acc
    ELSE LET diff == b1[i] - b2[i]
         IN  memcmp_fold(b1, b2, i - 1,
                         [res   |-> IF diff = 0 THEN acc.res ELSE diff,
                          steps |-> acc.steps + 1])

memcmp(b1, b2, len) ==
    LET r == memcmp_fold(b1, b2, len, [res |-> 0, steps |-> 0])
    IN  [ret   |-> IF r.res < 0 THEN -1 ELSE IF r.res > 0 THEN 1 ELSE 0,
         steps |-> r.steps]

\* ------------------------------------------------------------ TempKey
size_of_T == SizeOfT

Unborn == [st |-> "Unborn", addr |-> 0, lockOk |-> FALSE]

Live(k) == key[k].st = "Locked"

\* slots that some live wrapper borrows (&'a mut T is exclusive)
Borrowed == {key[k].addr : k \in {j \in Keys : Live(j)}}

\* new that forgets to lock
new_calls_none(t) == << >>

\* TempKey::new: provider requests issued, in order
new_calls(t) == << [fn |-> "mlock", addr |-> t, len |-> size_of_T] >>

\* new that insists on the lock: assert!(mlock(..))
new_strict(t, ok) ==
    [self  |-> [st |-> "Locked", addr |-> t, lockOk |-> ok],
     panic |-> ~ok]

\* TempKey::new: the wrapper returned and whether construction raised
new(t, ok) ==
    [self  |-> [st |-> "Locked", addr |-> t, lockOk |-> ok],
     panic |-> FALSE]

\* Deref::deref: the value behind self.0
deref(self, m) == m[self.addr]

\* DerefMut::deref_mut followed by a store of v through the returned &mut T
deref_mut(self, m, v) == [m EXCEPT ![self.addr] = v]

\* the derived Debug: prints the field's value
fmt_derived(self, m) == <<"TempKey", m[self.addr]>>

\* Debug::fmt: debug_tuple("TempKey").field("{:p}" of self.0)
fmt(self, m) == <<"TempKey", self.addr>>

\* eq over one byte too few
eq_short(self, rhs, m) == memeq(m[self.addr], rhs, size_of_T - 1)

\* eq by the ordinary slice comparison, which stops at the first difference
RECURSIVE first_diff(_, _, _, _)
first_diff(b1, b2, i, len) ==
    IF i > len THEN len
    ELSE IF b1[i] # b2[i] THEN i ELSE first_diff(b1, b2, i + 1, len)

eq_early(self, rhs, m) ==
    [ret   |-> (m[self.addr] = rhs),
     steps |-> first_diff(m[self.addr], rhs, 1, size_of_T)]

\* PartialEq<T>::eq
eq(self, rhs, m) == memeq(m[self.addr], rhs, size_of_T)

\* PartialEq<TempKey>::eq: self.eq(rhs as &T)
eq_key(self, rhs, m) == eq(self, deref(rhs, m), m)

\* i32::cmp(&0)
cmp_zero(order) ==
    IF order < 0 THEN "Less" ELSE IF order > 0 THEN "Greater" ELSE "Equal"

\* partial_cmp over one byte too few
partial_cmp_short(self, rhs, m) ==
    LET order == memcmp(m[self.addr], rhs, size_of_T - 1)
    IN  [ret |-> cmp_zero(order.ret), steps |-> order.steps]

\* partial_cmp that only knows equal operands
partial_cmp_none(self, rhs, m) ==
    LET order == memcmp(m[self.addr], rhs, size_of_T)
    IN  [ret |-> IF order.ret = 0 THEN "Equal" ELSE "None", steps |-> order.steps]

\* PartialOrd<T>::partial_cmp: Some(order.cmp(&0)); "None" stands for None
partial_cmp(self, rhs, m) ==
    LET order == memcmp(m[self.addr], rhs, size_of_T)
    IN  [ret |-> cmp_zero(order.ret), steps |-> order.steps]

\* PartialOrd<TempKey>::partial_cmp: self.partial_cmp(rhs as &T)
partial_cmp_key(self, rhs, m) == partial_cmp(self, deref(rhs, m), m)

\* Ord::cmp: self.partial_cmp(rhs).unwrap()
cmp(self, rhs, m) ==
    LET r == partial_cmp_key(self, rhs, m)
    IN  [ret |-> r.ret, steps |-> r.steps, panic |-> (r.ret = "None")]

\* drop that never unlocks
drop_calls_none(self) == << >>

\* drop that unlocks the size of the wrapper instead of the size of T
drop_calls_wrong_len(self) ==
    << [fn |-> "munlock", addr |-> self.addr, len |-> size_of_T + 1] >>

\* Drop::drop: provider requests issued, in order
drop_calls(self) == << [fn |-> "munlock", addr |-> self.addr, len |-> size_of_T] >>

\* Drop::drop: whether destruction raised
drop_panics(self, ok) == FALSE

\* ------------------------------------------------------------ bookkeeping
\* effect of a sequence of provider requests on the pinned pages
RECURSIVE ApplyCalls(_, _, _)
ApplyCalls(pin, calls, ok) ==
    IF calls = << >> THEN pin
    ELSE LET c == Head(calls)
             p == IF c.fn = "mlock" THEN mlock(pin, c.addr, c.len, ok)
                                    ELSE munlock(pin, c.addr, c.len, ok)
         IN  ApplyCalls(p, Tail(calls), ok)

NoVal == [i \in 1 .. SizeOfT |-> 0]

Op(op, k, rk, rhs, ret, val, steps, out) ==
    [op |-> op, k |-> k, rk |-> rk, rhs |-> rhs, ret |-> ret, val |-> val,
     steps |-> steps, out |-> out, afterMut |-> FALSE]

\* the operation directly follows a store through the same wrapper
AfterMut(k) == last.op = "deref_mut" /\ last.k = k

NoOut == <<"", 0>>

Bool(x) == IF x THEN "true" ELSE "false"

\* ------------------------------------------------------------ actions
Init ==
    /\ mem \in [Slots -> Values]
    /\ pinned = {}
    /\ key = [k \in Keys |-> Unborn]
    /\ nextKey = 1
    /\ bind = [b \in Bindings |-> NoKey]
    /\ hist = [k \in Keys |-> << >>]
    /\ last = Op("init", 0, 0, NoVal, "", NoVal, 0, NoOut)
    /\ panicked = FALSE

\* let b = TempKey::new(&mut slot a)
New(b, a, ok) ==
    /\ nextKey <= MaxKeys
    /\ bind[b] = NoKey
    /\ a \notin Borrowed
    /\ LET k == nextKey
           r == new(a, ok)
       IN  /\ key' = [key EXCEPT ![k] = r.self]
           /\ hist' = [hist EXCEPT ![k] = @ \o new_calls(a)]
           /\ pinned' = ApplyCalls(pinned, new_calls(a), ok)
           /\ bind' = [bind EXCEPT ![b] = k]
           /\ panicked' = (panicked \/ r.panic)
           /\ last' = Op("new", k, 0, NoVal, "", NoVal, 0, NoOut)
    /\ nextKey' = nextKey + 1
    /\ UNCHANGED mem

\* let v = *b
Deref(b) ==
    /\ bind[b] \in Keys
    /\ LET k == bind[b]
       IN  /\ last' = Op("deref", k, 0, NoVal, "", deref(key[k], mem), 0, NoOut)
    /\ UNCHANGED <<mem, pinned, key, nextKey, bind, hist, panicked>>

\* *b = v
DerefMut(b, v) ==
    /\ bind[b] \in Keys
    /\ LET k == bind[b]
       IN  /\ mem' = deref_mut(key[k], mem, v)
           /\ last' = Op("deref_mut", k, 0, NoVal, "", v, 0, NoOut)
    /\ UNCHANGED <<pinned, key, nextKey, bind, hist, panicked>>

\* format!("{:?}", b)
Debug(b) ==
    /\ bind[b] \in Keys
    /\ LET k == bind[b]
       IN  /\ last' = Op("fmt", k, 0, NoVal, "", NoVal, 0, fmt(key[k], mem))
    /\ UNCHANGED <<mem, pinned, key, nextKey, bind, hist, panicked>>

\* b == v  (v: T)
Eq(b, v) ==
    /\ bind[b] \in Keys
    /\ LET k == bind[b]
           r == eq(key[k], v, mem)
       IN  /\ last' = [Op("eq", k, 0, v, Bool(r.ret), NoVal, r.steps, NoOut)
                          EXCEPT !.afterMut = AfterMut(k)]
    /\ UNCHANGED <<mem, pinned, key, nextKey, bind, hist, panicked>>

\* b == c  (c: TempKey<T>)
EqKey(b, c) ==
    /\ bind[b] \in Keys
    /\ bind[c] \in Keys
    /\ LET k  == bind[b]
           rk == bind[c]
           r  == eq_key(key[k], key[rk], mem)
       IN  /\ last' = Op("eq_key", k, rk, deref(key[rk], mem), Bool(r.ret), NoVal,
                         r.steps, NoOut)
    /\ UNCHANGED <<mem, pinned, key, nextKey, bind, hist, panicked>>

\* b.partial_cmp(&v)  (v: T)
PartialCmp(b, v) ==
    /\ bind[b] \in Keys
    /\ LET k == bind[b]
           r == partial_cmp(key[k], v, mem)
       IN  /\ last' = Op("partial_cmp", k, 0, v, r.ret, NoVal, r.steps, NoOut)
    /\ UNCHANGED <<mem, pinned, key, nextKey, bind, hist, panicked>>

\* b.partial_cmp(&c)  (c: TempKey<T>)
PartialCmpKey(b, c) ==
    /\ bind[b] \in Keys
    /\ bind[c] \in Keys
    /\ LET k  == bind[b]
           rk == bind[c]
           r  == partial_cmp_key(key[k], key[rk], mem)
       IN  /\ last' = Op("partial_cmp_key", k, rk, deref(key[rk], mem), r.ret, NoVal,
                         r.steps, NoOut)
    /\ UNCHANGED <<mem, pinned, key, nextKey, bind, hist, panicked>>

\* b.cmp(&c)  (Ord)
Cmp(b, c) ==
    /\ bind[b] \in Keys
    /\ bind[c] \in Keys
    /\ LET k  == bind[b]
           rk == bind[c]
           r  == cmp(key[k], key[rk], mem)
       IN  /\ panicked' = (panicked \/ r.panic)
           /\ last' = Op("cmp", k, rk, deref(key[rk], mem), r.ret, NoVal,
                         r.steps, NoOut)
    /\ UNCHANGED <<mem, pinned, key, nextKey, bind, hist>>

\* let c = b  (the wrapper is moved; b is left without drop glue)
Move(b, c) ==
    /\ bind[b] \in Keys
    /\ bind[c] = NoKey
    /\ bind' = [bind EXCEPT ![c] = bind[b], ![b] = MovedOut]
    /\ last' = Op("move", bind[b], 0, NoVal, "", NoVal, 0, NoOut)
    /\ UNCHANGED <<mem, pinned, key, nextKey, hist, panicked>>

\* binding b, holding a wrapper, leaves scope on the given path: Drop::drop runs
ScopeExit(b, path, ok) ==
    /\ bind[b] \in Keys
    /\ LET k == bind[b]
       IN  /\ key' = [key EXCEPT ![k].st = "Released"]
           /\ hist' = [hist EXCEPT ![k] = @ \o drop_calls(key[k])]
           /\ pinned' = ApplyCalls(pinned, drop_calls(key[k]), ok)
           /\ panicked' = (panicked \/ drop_panics(key[k], ok))
           /\ last' = Op("drop", k, 0, NoVal, "", NoVal, 0, NoOut)
    /\ bind' = [bind EXCEPT ![b] = NoKey]
    /\ UNCHANGED <<mem, nextKey>>

\* a moved-from binding leaves scope: nothing is dropped
ScopeExitMoved(b, path) ==
    /\ bind[b] = MovedOut
    /\ bind' = [bind EXCEPT ![b] = NoKey]
    /\ last' = Op("exit_moved", 0, 0, NoVal, "", NoVal, 0, NoOut)
    /\ UNCHANGED <<mem, pinned, key, nextKey, hist, panicked>>

Next ==
    \/ \E b \in Bindings, a \in Slots, ok \in BOOLEAN : New(b, a, ok)
    \/ \E b \in Bindings : Deref(b)
    \/ \E b \in Bindings, v \in Values : DerefMut(b, v)
    \/ \E b \in Bindings : Debug(b)
    \/ \E b \in Bindings, v \in Values : Eq(b, v)
    \/ \E b, c \in Bindings : EqKey(b, c)
    \/ \E b \in Bindings, v \in Values : PartialCmp(b, v)
    \/ \E b, c \in Bindings : PartialCmpKey(b, c)
    \/ \E b, c \in Bindings : Cmp(b, c)
    \/ \E b, c \in Bindings : Move(b, c)
    \/ \E b \in Bindings, path \in Paths, ok \in BOOLEAN : ScopeExit(b, path, ok)
    \/ \E b \in Bindings, path \in Paths : ScopeExitMoved(b, path)

Spec == Init /\ [][Next]_vars

\* ------------------------------------------------------------ properties
Count(h, fn) == Cardinality({i \in DOMAIN h : h[i].fn = fn})

Holders(k) == {b \in Bindings : bind[b] = k}

Ordering == {"Less", "Equal", "Greater"}

Comparisons == {"eq", "eq_key", "partial_cmp", "partial_cmp_key", "cmp"}

\* C1: every constructed wrapper has unlock requested exactly once, when the
\* binding holding it leaves scope (on any path), and never a second time,
\* moves included: a live wrapper sits in exactly one binding and has no
\* unlock request yet, a released one sits in none and has exactly one.
C1_UnlockExactlyOnce ==
    \A k \in Keys :
        /\ Count(hist[k], "munlock") <= 1
        /\ Live(k) => Count(hist[k], "munlock") = 0 /\ Cardinality(Holders(k)) = 1
        /\ key[k].st = "Released" =>
               /\ Count(hist[k], "munlock") = 1
               /\ hist[k][Len(hist[k])].fn = "munlock"
               /\ Holders(k) = {}
        /\ key[k].st = "Unborn" => Count(hist[k], "munlock") = 0

\* wrapper 1 was moved to another binding and dropped there
C1_Witness ==
    /\ last.op = "drop" /\ last.k = 1
    /\ key[1].st = "Released"
    /\ \E b \in Bindings : bind[b] = MovedOut
    /\ key[2].st = "Unborn"
    /\ Count(hist[1], "munlock") = 1

\* C2: for every wrapper lock is requested exactly once, by the constructor,
\* and it is the first request made for the wrapper; whatever operation was
\* just performed on a wrapper found that one lock request in place, and no
\* unlock request stands before it.
C2_LockOnceFirst ==
    /\ \A k \in Keys :
          /\ Count(hist[k], "mlock") <= 1
          /\ key[k].st # "Unborn" =>
                 /\ Count(hist[k], "mlock") = 1
                 /\ hist[k][1].fn = "mlock"
          /\ key[k].st = "Unborn" => hist[k] = << >>
    /\ \A k \in {last.k, last.rk} \cap Keys :
          /\ Count(hist[k], "mlock") = 1
          /\ hist[k][1].fn = "mlock"

\* a three-way comparison of two live wrappers, each locked once
C2_Witness ==
    /\ last.op = "cmp" /\ last.k # last.rk
    /\ Len(hist[last.k]) = 1 /\ Len(hist[last.rk]) = 1

\* C3: while a wrapper whose lock request succeeded is live, the page holding
\* its value is pinned.
C3_LivePinned ==
    \A k \in Keys :
        Live(k) /\ key[k].lockOk => PagesOf(key[k].addr, size_of_T) \subseteq pinned

\* C4: equality against a raw value and against another wrapper is true
\* exactly when the operands' current bytes agree on all sizeof(T) bytes,
\* also right after a store through the wrapper.
C4_EqIsByteEquality ==
    /\ last.op = "eq" =>
           (last.ret = "true" <=> mem[key[last.k].addr] = last.rhs)
    /\ last.op = "eq_key" =>
           (last.ret = "true" <=> mem[key[last.k].addr] = mem[key[last.rk].addr])
    /\ \A k \in Keys : Live(k) =>
           /\ \A v \in Values :
                  eq(key[k], v, mem).ret <=> (\A i \in 1 .. SizeOfT : mem[key[k].addr][i] = v[i])
           /\ \A j \in Keys : Live(j) =>
                  (eq_key(key[k], key[j], mem).ret <=>
                      (\A i \in 1 .. SizeOfT : mem[key[k].addr][i] = mem[key[j].addr][i]))

\* an equality check right after a store of a non-zero value through the
\* wrapper answers true for the stored bytes
C4_Witness ==
    /\ last.op = "eq" /\ last.afterMut
    /\ last.ret = "true"
    /\ last.rhs # NoVal

\* C5: the three-way comparison is Equal exactly when equality is true, for
\* a wrapper against every raw value and against every other wrapper.
C5_OrderAgreesWithEq ==
    \A k \in Keys : Live(k) =>
        /\ \A v \in Values :
               (partial_cmp(key[k], v, mem).ret = "Equal") <=> eq(key[k], v, mem).ret
        /\ \A j \in Keys : Live(j) =>
               /\ (partial_cmp_key(key[k], key[j], mem).ret = "Equal")
                      <=> eq_key(key[k], key[j], mem).ret
               /\ (cmp(key[k], key[j], mem).ret = "Equal")
                      <=> eq_key(key[k], key[j], mem).ret

\* two distinct wrappers over different bytes compared unequal
C5_Witness ==
    /\ last.op = "partial_cmp_key" /\ last.k # last.rk
    /\ last.ret = "Less"
    /\ ~eq_key(key[last.k], key[last.rk], mem).ret

\* C6: partial comparison always answers less, equal or greater, and the
\* total comparison that unwraps it never panics.
C6_OrderAlwaysDefined ==
    /\ ~panicked
    /\ last.op \in {"partial_cmp", "partial_cmp_key", "cmp"} => last.ret \in Ordering
    /\ \A k \in Keys : Live(k) =>
           /\ \A v \in Values : partial_cmp(key[k], v, mem).ret \in Ordering
           /\ \A j \in Keys : Live(j) =>
                  /\ partial_cmp_key(key[k], key[j], mem).ret \in Ordering
                  /\ ~cmp(key[k], key[j], mem).panic

\* a total comparison of two wrappers over different bytes
C6_Witness ==
    /\ last.op = "cmp" /\ last.ret = "Greater"
    /\ ~panicked

\* C7: whatever lock and unlock return, construction yields a wrapper and
\* destruction completes, nothing panics, and read access and comparison
\* results are those of a wrapper whose lock succeeded.
C7_FailuresAbsorbed ==
    /\ ~panicked
    /\ \A k \in Keys :
          /\ hist[k] # << >> => key[k].st \in {"Locked", "Released"}
          /\ Count(hist[k], "munlock") > 0 => key[k].st = "Released"
          /\ Live(k) =>
                 LET locked == [key[k] EXCEPT !.lockOk = TRUE]
                 IN  /\ deref(key[k], mem) = deref(locked, mem)
                     /\ \A v \in Values :
                            /\ eq(key[k], v, mem) = eq(locked, v, mem)
                            /\ partial_cmp(key[k], v, mem) = partial_cmp(locked, v, mem)
                            /\ deref_mut(key[k], mem, v) = deref_mut(locked, mem, v)
    /\ last.op = "deref" => last.val = mem[key[last.k].addr]
    /\ last.op = "eq" => (last.ret = "true" <=> mem[key[last.k].addr] = last.rhs)

\* wrapper 1 was destroyed with a failing unlock (its page is still pinned),
\* wrapper 2 was constructed with a failing lock and compares equal to its bytes
C7_Witness ==
    /\ key[1].st = "Released"
    /\ Live(2) /\ ~key[2].lockOk
    /\ \A k \in Keys : Live(k) => ~key[k].lockOk
    /\ pinned # {}
    /\ last.op = "eq" /\ last.k = 2 /\ last.ret = "true"

\* C8: the Debug output is determined by the storage address alone: it is
\* the same whatever bytes the wrapped value holds, and the same for any two
\* wrappers over the same address.
C8_DebugRedacted ==
    /\ \A k \in Keys : key[k].st # "Unborn" =>
           /\ \A v \in Values :
                  fmt(key[k], mem) = fmt(key[k], [mem EXCEPT ![key[k].addr] = v])
           /\ \A j \in Keys : key[j].st # "Unborn" /\ key[j].addr = key[k].addr =>
                  fmt(key[k], mem) = fmt(key[j], mem)
    /\ last.op = "fmt" =>
           \A v \in Values :
               last.out = fmt(key[last.k], [mem EXCEPT ![key[last.k].addr] = v])

\* a wrapper over a non-zero secret was formatted
C8_Witness ==
    /\ last.op = "fmt"
    /\ mem[key[last.k].addr] # NoVal

\* C9: every equality and ordering comparison takes sizeof(T) byte steps,
\* whatever the operands: the step count is the same for any two raw
\* operands, wherever and however often they differ from the wrapped bytes.
C9_ConstantTime ==
    /\ last.op \in Comparisons => last.steps = SizeOfT
    /\ \A k \in Keys : Live(k) =>
           \A v, w \in Values :
               /\ eq(key[k], v, mem).steps = eq(key[k], w, mem).steps
               /\ partial_cmp(key[k], v, mem).steps = partial_cmp(key[k], w, mem).steps

\* an equality check whose operands differ in the first byte
C9_Witness ==
    /\ last.op = "eq"
    /\ mem[key[last.k].addr][1] # last.rhs[1]
    /\ last.ret = "false"
    /\ last.steps = SizeOfT

\* C10: the unlock request made for a wrapper names the address and length
\* of the lock request made for it, and the length is sizeof(T).
C10_UnlockMatchesLock ==
    \A k \in Keys : \A i \in DOMAIN hist[k] :
        hist[k][i].fn = "munlock" =>
            /\ hist[k][i].len = SizeOfT
            /\ \E j \in 1 .. (i - 1) :
                   /\ hist[k][j].fn = "mlock"
                   /\ hist[k][j].addr = hist[k][i].addr
                   /\ hist[k][j].len = hist[k][i].len

\* a wrapper over slot 1 was destroyed while its bytes were non-zero
C10_Witness ==
    /\ last.op = "drop"
    /\ key[last.k].addr = 1
    /\ mem[1] # NoVal
    /\ hist[last.k] = << [fn |-> "mlock", addr |-> 1, len |-> SizeOfT],
                         [fn |-> "munlock", addr |-> 1, len |-> SizeOfT] >>
====
